---- MODULE Spec2Model ----
(***************************************************************************)
(* Model of the bookmark workflow engine (BookmarkWorkflow), the shared    *)
(* waiting queue (WaitlistManager) and the part of BookmarkModal that      *)
(* feeds them.                                                             *)
(*                                                                         *)
(* Execution model: the host is single-threaded JavaScript.  A handler     *)
(* runs to completion until it suspends at an await of real I/O; the only  *)
(* such awaits of a run are the step functions handed to executeStep.      *)
(* User events (a modal submitting input, a cancel click) are therefore    *)
(* only taken when every instance is either idle or suspended inside a     *)
(* step function (Quiescent); the same holds for the resumption of a run   *)
(* when its step function settles.                                         *)
(***************************************************************************)
EXTENDS Integers, Sequences, FiniteSets, TLC

\* ---------------------------------------------------------------- bounds
NumInstances == 2
MaxQueue == 2
MaxLines == 2
MaxLog == 3
MaxMarks == 3
MaxListeners == 2
MaxTitleLen == 3

Instances == 1..NumInstances
null == 0

\* instanceId is Math.random().toString(36).substr(2, 9): ids of different
\* instances are taken to be different.
instanceId(i) == i

\* ------------------------------------------------------------ steps.ts
allSteps ==
  << "get-web-content", "get-web-rating", "generate-bookmark-info",
     "download-web-screenshot", "create-bookmark-note" >>

steps_full == allSteps

steps_simple == SubSeq(allSteps, 4, Len(allSteps))

stepStatus == {"pending", "processing", "completed", "failed"}

Range(s) == {s[k] : k \in 1..Len(s)}

\* ------------------------------------------------------------ inputs
\* Lines typed into the modal.  new URL(line) succeeds exactly on ValidURLs.
ValidURLs == {"https://a.example/", "https://b.example/"}

InvalidURLs == {"not a url"}

IsValidURL(u) == u \in ValidURLs

\* A YAML document as parseYaml sees it: whether it parses to a mapping at
\* all, and the values of its title and url keys ("" when missing or empty).
YamlDocs ==
  [ syntaxOk : BOOLEAN,
    title : {"", "T"},
    url : {"", "not a url", "https://a.example/"} ]

NoData == [title |-> "", url |-> ""]

VARIABLES
  isWorkflowRunning,        \* BookmarkWorkflow.isWorkflowRunning (static)
  runningInstanceId,        \* BookmarkWorkflow.runningInstanceId (static)
  isCancellationRequested,  \* BookmarkWorkflow.isCancellationRequested (static)
  cancellingInstanceId,     \* BookmarkWorkflow.cancellingInstanceId (static)
  waitlist,                 \* WaitlistManager.waitlist
  pc,                       \* position of each instance's start*Workflow call
  kind,                     \* which pipeline the call of an instance runs
  currentIndex,             \* local currentIndex of startURLWorkflow
  hasError,                 \* local hasError of startURLWorkflow
  stepIdx,                  \* index in allSteps of the step being executed
  curUrl,                   \* parameter url of URLWorkflow
  noteData,                 \* local noteData of the pipeline
  pendingRet,               \* value of the return statement already executed
  cancelCaller,             \* instance whose requestCancellation is being called, or null
  reqBy,                    \* history: who requested since the lock was acquired: subset of {"owner", "other"}
  reqBefore,                \* history: a request took effect during the previous run
  observed,                 \* history: a checkpoint of the run threw the cancellation
  lastFailedIdx,            \* history: index of the last item whose pipeline failed, or -1
  nStarted,                 \* history: number of items of this run whose first step's action was invoked
  lastStart,                \* history: item index and step of the last step function invoked by the run
  settled,                  \* history: executeStep has issued completed/failed for that step
  missingField,             \* history: the YAML document of the run lacks a title or a url
  doneLeft,                 \* history: a run that released the lock left in the queue the item it had just taken through all five steps
  qBorn,                    \* queue log: <<url, type>> of every add since the last clear
  nRemoved,                 \* queue log: number of remove() calls that returned an item
  qRet,                     \* value returned by the last direct queue call
  listeners                 \* WaitlistManager.listeners: per event, the listeners in subscription order

lockVars == << isWorkflowRunning, runningInstanceId >>
cancelVars == << isCancellationRequested, cancellingInstanceId >>
localVars == << kind, currentIndex, hasError, stepIdx, curUrl, noteData, pendingRet >>
stepHist == << lastStart, settled >>
histVars == << reqBy, reqBefore, observed, lastFailedIdx, nStarted, lastStart,
               settled, missingField, doneLeft >>
qVars == << qBorn, nRemoved, qRet >>

\* A cancellation request took effect during the run that holds the lock.
reqInRun == reqBy # {}
vars == << isWorkflowRunning, runningInstanceId, isCancellationRequested,
           cancellingInstanceId, waitlist, pc, kind, currentIndex, hasError,
           stepIdx, curUrl, noteData, pendingRet, cancelCaller, reqBy,
           reqBefore,
           observed, lastFailedIdx, nStarted, lastStart, settled,
           missingField, doneLeft, qBorn, nRemoved, qRet, listeners >>

\* ------------------------------------------------- WaitlistManager (queue)
\* add(url, type): a new item with every step of the ordering pending,
\* appended at the tail.
NewItem(url, type) ==
  [ url |-> url,
    status |-> [ s \in Range(IF type = "full" THEN steps_full ELSE steps_simple)
                   |-> "pending" ] ]

add(wl, url, type) == Append(wl, NewItem(url, type))

\* read(n): the n-th element (0-based) or null (nullItem stands for null).
nullItem == [url |-> "", status |-> << >>]

read(wl, n) == IF n >= 0 /\ n < Len(wl) THEN wl[n + 1] ELSE nullItem

\* add returns this.waitlist.length after the push.
add_result(wl, url, type) == Len(add(wl, url, type))

\* remove(): shift() takes the element at index 0; the queue afterwards
\* and the value returned (null on an empty queue).
remove_Last(wl) == IF wl = << >> THEN wl ELSE SubSeq(wl, 1, Len(wl) - 1)

remove(wl) == IF wl = << >> THEN wl ELSE Tail(wl)

remove_result(wl) == IF wl = << >> THEN nullItem ELSE Head(wl)

\* remove emits 'remove' only when shift() produced an item.
remove_emits_Always(wl) == TRUE

remove_emits(wl) == wl # << >>

ProcessTypes == {"full", "simple"}

\* update(step, status, n): only when the item exists and has the step.
updateApplies(wl, step, n) ==
  /\ n >= 0 /\ n < Len(wl)
  /\ step \in DOMAIN wl[n + 1].status

update_AllSteps(wl, step, status, n) ==
  IF updateApplies(wl, step, n)
    THEN [wl EXCEPT ![n + 1].status = [s \in DOMAIN @ |-> status]]
    ELSE wl

update(wl, step, status, n) ==
  IF updateApplies(wl, step, n)
    THEN [wl EXCEPT ![n + 1].status[step] = status]
    ELSE wl

\* update emits 'update' inside the same test, after the assignment.
update_emits(wl, step, n) == updateApplies(wl, step, n)

\* clear()
clear_Keep(wl) == wl

clear(wl) == << >>

RECURSIVE addAll(_, _)
addAll(wl, lines) ==
  IF lines = << >> THEN wl
  ELSE addAll(add(wl, Head(lines), "full"), Tail(lines))

\* Events of the queue and its listener registry: per event a Set, which
\* forEach visits in insertion order.  A listener is identified by who
\* subscribed it (a modal instance, or 0 for a direct subscriber) and a
\* serial number; direct subscribers with an odd serial throw when called.
EventTypes == {"add", "read", "remove", "clear", "update"}

Subscriber == 0

Throws(l) == l.owner = Subscriber /\ l.serial % 2 = 1

\* subscribe / unsubscribe: Set.add ignores a listener already present.
subscribe(ls, e, l) ==
  IF l \in Range(ls[e]) THEN ls ELSE [ls EXCEPT ![e] = Append(@, l)]

unsubscribe(ls, e, l) ==
  [ls EXCEPT ![e] = SelectSeq(@, LAMBDA x : x # l)]

\* emit: listeners.forEach(listener => listener(data)) with no try/catch:
\* the listeners called, in order, and whether one of them threw.
RECURSIVE emit_CatchAll(_)
emit_CatchAll(seq) ==
  IF seq = << >> THEN [invoked |-> << >>, threw |-> FALSE]
  ELSE [invoked |-> << Head(seq) >> \o emit_CatchAll(Tail(seq)).invoked,
        threw |-> FALSE]

RECURSIVE emit(_)
emit(seq) ==
  IF seq = << >> THEN [invoked |-> << >>, threw |-> FALSE]
  ELSE IF Throws(Head(seq)) THEN [invoked |-> << Head(seq) >>, threw |-> TRUE]
  ELSE [invoked |-> << Head(seq) >> \o emit(Tail(seq)).invoked,
        threw |-> emit(Tail(seq)).threw]

\* ------------------------------------------------------- BookmarkWorkflow
shouldCancel(i) ==
  isCancellationRequested /\ cancellingInstanceId = instanceId(i)

\* parseGeneratedYaml: throws unless the text parses and has a truthy title
\* and a truthy url; otherwise yields the record built from them.
parseThrows_SyntaxOnly(doc) == ~doc.syntaxOk

parseThrows(doc) == ~doc.syntaxOk \/ doc.title = "" \/ doc.url = ""

parseGeneratedYaml(doc) == [title |-> doc.title, url |-> doc.url]

\* No step function has been invoked yet / no queue call has returned yet.
NoStep == [idx |-> -1, step |-> 0]

NoRet == [op |-> "none"]

Quiescent ==
  /\ \A k \in Instances : pc[k] \in {"idle", "action"}
  /\ cancelCaller = null

Init ==
  /\ isWorkflowRunning = FALSE
  /\ runningInstanceId = null
  /\ isCancellationRequested = FALSE
  /\ cancellingInstanceId = null
  /\ waitlist = << >>
  /\ pc = [i \in Instances |-> "idle"]
  /\ kind = [i \in Instances |-> "none"]
  /\ currentIndex = [i \in Instances |-> 0]
  /\ hasError = [i \in Instances |-> FALSE]
  /\ stepIdx = [i \in Instances |-> 0]
  /\ curUrl = [i \in Instances |-> ""]
  /\ noteData = [i \in Instances |-> NoData]
  /\ pendingRet = [i \in Instances |-> FALSE]
  /\ cancelCaller = null
  /\ reqBy = {}
  /\ reqBefore = FALSE
  /\ observed = [i \in Instances |-> FALSE]
  /\ lastFailedIdx = [i \in Instances |-> -1]
  /\ nStarted = [i \in Instances |-> 0]
  /\ lastStart = NoStep
  /\ settled = TRUE
  /\ missingField = [i \in Instances |-> FALSE]
  /\ doneLeft = FALSE
  /\ qBorn = << >>
  /\ nRemoved = 0
  /\ qRet = NoRet
  /\ listeners = [e \in EventTypes |-> << >>]

\* ------------------------------------------------------------ the lock
\* The test of startURLWorkflow / startYAMLWorkflow before acquiring.
lockIsHeld_Never == FALSE

lockIsHeld == isWorkflowRunning

\* Acquire the lock for instance i (the two assignments after the test).
acquireLock(i) ==
  /\ isWorkflowRunning' = TRUE
  /\ runningInstanceId' = instanceId(i)

\* Release the lock (the first two assignments of the finally blocks).
releaseLock_KeepId ==
  /\ isWorkflowRunning' = FALSE
  /\ UNCHANGED runningInstanceId

releaseLock_Hold == UNCHANGED lockVars

releaseLock ==
  /\ isWorkflowRunning' = FALSE
  /\ runningInstanceId' = null

resetCancellationState_Skip == UNCHANGED cancelVars

resetCancellationState ==
  /\ isCancellationRequested' = FALSE
  /\ cancellingInstanceId' = null

\* History of a run starts afresh when the lock is acquired.
HistAtAcquire(i) ==
  /\ reqBy' = {}
  /\ observed' = [observed EXCEPT ![i] = FALSE]
  /\ lastFailedIdx' = [lastFailedIdx EXCEPT ![i] = -1]
  /\ nStarted' = [nStarted EXCEPT ![i] = 0]
  /\ lastStart' = NoStep
  /\ settled' = TRUE
  /\ UNCHANGED << reqBefore, doneLeft >>

\* The step a pipeline starts with: URLWorkflow begins at get-web-content,
\* startYAMLWorkflow at download-web-screenshot.
firstStep_AlwaysFull(k) == 1

firstStep(k) == IF k = "url" THEN 1 ELSE 4

\* The executeStep calls of a pipeline follow each other in program order.
nextStep_Repeat(k) == k

nextStep(k) == k + 1

\* ---------------------------------------------- modal: progress display
\* The 'update' listeners modal i has subscribed and not unsubscribed.
listenersOf(ls, i) == {l \in Range(ls["update"]) : l.owner = i}

\* progressMode: a new closure is stored in this.waitlistUpdateListener and
\* subscribed to 'update'; the closure stored before is not unsubscribed.
progressMode(ls, i) ==
  subscribe(ls, "update",
            [owner |-> i, serial |-> Cardinality(listenersOf(ls, i)) + 1])

\* this.waitlistUpdateListener: the closure of the last progressMode call.
waitlistUpdateListener(ls, i) ==
  CHOOSE l \in listenersOf(ls, i) : \A m \in listenersOf(ls, i) : m.serial <= l.serial

\* onClose: the stored listener, if any, is unsubscribed.
onClose(ls, i) ==
  IF listenersOf(ls, i) = {} THEN ls
  ELSE unsubscribe(ls, "update", waitlistUpdateListener(ls, i))

\* The modal shows the progress display (modalType is not "input").
InProgressMode(i) == listenersOf(listeners, i) # {}

\* ------------------------------------------------------- modal: submit
\* BookmarkModal.startWorkflow on URL input: every non-empty line must pass
\* new URL(line); then each line is added (type full) and startURLWorkflow
\* is called.  pc "call" is the point between the last add and the call.
LineSeqs == UNION {[1..n -> ValidURLs \cup InvalidURLs] : n \in 1..MaxLines}

allLinesValid_FirstOnly(lines) == IsValidURL(lines[1])

allLinesValid(lines) == \A k \in 1..Len(lines) : IsValidURL(lines[k])

ModalStartWorkflow(i, lines) ==
  /\ Quiescent
  /\ pc[i] = "idle"
  /\ Len(waitlist) + Len(lines) <= MaxQueue
  /\ IF allLinesValid(lines)
       THEN /\ waitlist' = addAll(waitlist, lines)
            /\ pc' = [pc EXCEPT ![i] = "call"]
       ELSE UNCHANGED << waitlist, pc >>
  /\ UNCHANGED << lockVars, cancelVars, localVars, cancelCaller, histVars, qVars, listeners >>

\* ------------------------------------------------- startURLWorkflow
StartURLWorkflow(i) ==
  /\ pc[i] = "call"
  /\ IF lockIsHeld
       THEN /\ pendingRet' = [pendingRet EXCEPT ![i] = FALSE]
            /\ pc' = [pc EXCEPT ![i] = "return"]
            /\ UNCHANGED << lockVars, kind, currentIndex, hasError, histVars,
                            listeners >>
       ELSE /\ acquireLock(i)
            /\ kind' = [kind EXCEPT ![i] = "url"]
            /\ currentIndex' = [currentIndex EXCEPT ![i] = 0]
            /\ hasError' = [hasError EXCEPT ![i] = FALSE]
            /\ listeners' = progressMode(listeners, i)
            /\ pc' = [pc EXCEPT ![i] = "loop"]
            /\ HistAtAcquire(i)
            /\ UNCHANGED << pendingRet, missingField >>
  /\ UNCHANGED << cancelVars, waitlist, stepIdx, curUrl, noteData, cancelCaller,
                  qVars >>

\* The head of the while loop: the length test, the cancellation test, read,
\* and the call of URLWorkflow; after the loop, clear() and the return.
LoopHead(i) ==
  /\ pc[i] = "loop"
  /\ IF currentIndex[i] < Len(waitlist)
       THEN IF shouldCancel(i)
              THEN \* throw WorkflowCancellationError -> outer catch: return false
                   /\ observed' = [observed EXCEPT ![i] = TRUE]
                   /\ pendingRet' = [pendingRet EXCEPT ![i] = FALSE]
                   /\ pc' = [pc EXCEPT ![i] = "finally"]
                   /\ UNCHANGED << waitlist, currentIndex, stepIdx, curUrl,
                                   nStarted, listeners >>
              ELSE IF read(waitlist, currentIndex[i]) = nullItem
                     THEN /\ currentIndex' = [currentIndex EXCEPT ![i] = @ + 1]
                          /\ UNCHANGED << waitlist, pc, stepIdx, curUrl,
                                          pendingRet, observed, nStarted,
                                          listeners >>
                     ELSE /\ curUrl' = [curUrl EXCEPT ![i] =
                                          read(waitlist, currentIndex[i]).url]
                          /\ listeners' = progressMode(listeners, i)
                          /\ stepIdx' = [stepIdx EXCEPT ![i] = firstStep("url")]
                          /\ pc' = [pc EXCEPT ![i] = "step"]
                          /\ UNCHANGED << waitlist, currentIndex, pendingRet,
                                          observed, nStarted >>
       ELSE /\ waitlist' = clear(waitlist)
            /\ pendingRet' = [pendingRet EXCEPT ![i] = ~hasError[i]]
            /\ pc' = [pc EXCEPT ![i] = "finally"]
            /\ UNCHANGED << currentIndex, stepIdx, curUrl, observed, nStarted,
                            listeners >>
  /\ UNCHANGED << lockVars, cancelVars, kind, hasError, noteData, cancelCaller,
                  reqBy, reqBefore, lastFailedIdx, stepHist, missingField, doneLeft,
                  qVars >>

\* ------------------------------------------------------ URLWorkflow ends
\* What URLWorkflow's catch lets through to its caller: every error,
\* WorkflowCancellationError included, is logged and turned into
\* "return false", so nothing propagates.
URLWorkflow_catch(e) == "none"

\* currentIndex++ at the end of the loop body.
nextIndex_Skip(n) == n + 2

nextIndex(n) == n + 1

\* The pipeline of the current item ends with e thrown inside URLWorkflow's
\* try ("none": it ran to its end).  Whatever URLWorkflow lets through is
\* caught by the loop body of startURLWorkflow, which sets hasError; then
\* the index advances and the loop continues.
ItemEnds(i, e) ==
  /\ hasError' = [hasError EXCEPT ![i] = @ \/ (URLWorkflow_catch(e) # "none")]
  /\ currentIndex' = [currentIndex EXCEPT ![i] = nextIndex(@)]
  /\ pc' = [pc EXCEPT ![i] = "loop"]
  /\ lastFailedIdx' = [lastFailedIdx EXCEPT ![i] =
                         IF e = "error" THEN currentIndex[i] ELSE @]
  /\ UNCHANGED pendingRet

\* A YAML run ends: the return value is fixed, finally is still to run.
YAMLEnds(i, value) ==
  /\ pendingRet' = [pendingRet EXCEPT ![i] = value]
  /\ pc' = [pc EXCEPT ![i] = "finally"]
  /\ UNCHANGED << hasError, currentIndex, lastFailedIdx >>

\* ------------------------------------------------------------ executeStep
\* The cancellation test at the entry of executeStep.
executeStep_checkpoint_Never(i) == FALSE

executeStep_checkpoint(i) == shouldCancel(i)

\* Index of the queue item the status updates of executeStep are applied
\* to: waitlist.update(stepId, status) is called without an index, so the
\* default n = 0 is used.
executeStep_updateIndex(i) == 0

\* Entry of executeStep up to the await of the step function.
ExecuteStepEnter(i) ==
  /\ pc[i] = "step"
  /\ IF executeStep_checkpoint(i)
       THEN \* throw WorkflowCancellationError, before the try
            /\ observed' = [observed EXCEPT ![i] = TRUE]
            /\ IF kind[i] = "url" THEN ItemEnds(i, "cancel")
                                  ELSE YAMLEnds(i, FALSE)
            /\ UNCHANGED << waitlist, nStarted, stepHist >>
       ELSE /\ waitlist' = update(waitlist, allSteps[stepIdx[i]], "processing",
                                  executeStep_updateIndex(i))
            /\ pc' = [pc EXCEPT ![i] = "action"]
            /\ lastStart' = [idx |-> IF kind[i] = "url" THEN currentIndex[i] ELSE 0,
                             step |-> stepIdx[i]]
            /\ settled' = FALSE
            /\ nStarted' = [nStarted EXCEPT ![i] =
                              IF kind[i] = "url" /\ stepIdx[i] = 1 THEN @ + 1 ELSE @]
            /\ UNCHANGED << currentIndex, hasError, pendingRet, observed,
                            lastFailedIdx >>
  /\ UNCHANGED << lockVars, cancelVars, kind, stepIdx, curUrl, noteData,
                  cancelCaller, reqBy, reqBefore, missingField, doneLeft, qVars,
                  listeners >>

\* The step function returned: status completed, then the code after the
\* executeStep call in the pipeline.
StepFunctionReturns(i) ==
  /\ Quiescent
  /\ pc[i] = "action"
  /\ waitlist' = update(waitlist, allSteps[stepIdx[i]], "completed",
                        executeStep_updateIndex(i))
  /\ IF stepIdx[i] = Len(allSteps)
       THEN /\ IF kind[i] = "url" THEN ItemEnds(i, "none")
                                  ELSE YAMLEnds(i, TRUE)
            /\ UNCHANGED stepIdx
       ELSE /\ IF kind[i] = "url" /\ stepIdx[i] = 3
                 THEN /\ pc' = [pc EXCEPT ![i] = "parse"]
                      /\ UNCHANGED stepIdx
                 ELSE /\ stepIdx' = [stepIdx EXCEPT ![i] = nextStep(@)]
                      /\ pc' = [pc EXCEPT ![i] = "step"]
            /\ UNCHANGED << currentIndex, hasError, pendingRet, lastFailedIdx >>
  /\ settled' = TRUE
  /\ UNCHANGED << lockVars, cancelVars, kind, curUrl, noteData, cancelCaller,
                  reqBy, reqBefore, observed, nStarted, lastStart, missingField,
                  doneLeft, qVars, listeners >>

\* What the step function of a step does when its remote call or file
\* operation fails.  callApi rethrows every failure (401, 429, >= 500, any
\* other status, a thrown request error) for all three service types,
\* jinaSearch included; downloadScreenshot and createBookmarkNote rethrow
\* as well.
onFailure(step) == "throw"

\* The step function threw: status failed, the error is rethrown.
StepFunctionThrows(i) ==
  /\ Quiescent
  /\ pc[i] = "action"
  /\ onFailure(allSteps[stepIdx[i]]) = "throw"
  /\ waitlist' = update(waitlist, allSteps[stepIdx[i]], "failed",
                        executeStep_updateIndex(i))
  /\ IF kind[i] = "url" THEN ItemEnds(i, "error")
                        ELSE YAMLEnds(i, FALSE)
  /\ settled' = TRUE
  /\ UNCHANGED << lockVars, cancelVars, kind, stepIdx, curUrl, noteData,
                  cancelCaller, reqBy, reqBefore, observed, nStarted, lastStart,
                  missingField, doneLeft, qVars, listeners >>

\* URLWorkflow after generate-bookmark-info: the generated text doc is
\* parsed, and noteData.url is overwritten with the item's url.
ParseGenerated(i, doc) ==
  /\ pc[i] = "parse"
  /\ IF parseThrows(doc)
       THEN /\ ItemEnds(i, "error")
            /\ UNCHANGED << stepIdx, noteData >>
       ELSE /\ noteData' = [noteData EXCEPT ![i] =
                              [parseGeneratedYaml(doc) EXCEPT !.url = curUrl[i]]]
            /\ stepIdx' = [stepIdx EXCEPT ![i] = nextStep(@)]
            /\ pc' = [pc EXCEPT ![i] = "step"]
            /\ UNCHANGED << currentIndex, hasError, pendingRet, lastFailedIdx >>
  /\ UNCHANGED << lockVars, cancelVars, waitlist, kind, curUrl, cancelCaller,
                  reqBy, reqBefore, observed, nStarted, stepHist, missingField,
                  doneLeft, qVars, listeners >>

\* ------------------------------------------------------ startYAMLWorkflow
\* The lock test, the acquisition and the parse of the document; a parse
\* failure returns false from inside the try, so finally still runs.
StartYAMLWorkflow(i, doc) ==
  /\ Quiescent
  /\ pc[i] = "idle"
  /\ IF lockIsHeld
       THEN /\ pendingRet' = [pendingRet EXCEPT ![i] = FALSE]
            /\ pc' = [pc EXCEPT ![i] = "return"]
            /\ UNCHANGED << lockVars, kind, stepIdx, noteData, histVars,
                            listeners >>
       ELSE /\ acquireLock(i)
            /\ kind' = [kind EXCEPT ![i] = "yaml"]
            /\ HistAtAcquire(i)
            /\ missingField' = [missingField EXCEPT ![i] =
                                  doc.title = "" \/ doc.url = ""]
            /\ IF parseThrows(doc)
                 THEN /\ pendingRet' = [pendingRet EXCEPT ![i] = FALSE]
                      /\ pc' = [pc EXCEPT ![i] = "finally"]
                      /\ UNCHANGED << stepIdx, noteData, listeners >>
                 ELSE /\ noteData' = [noteData EXCEPT ![i] = parseGeneratedYaml(doc)]
                      /\ listeners' = progressMode(listeners, i)
                      /\ stepIdx' = [stepIdx EXCEPT ![i] = firstStep("yaml")]
                      /\ pc' = [pc EXCEPT ![i] = "step"]
                      /\ UNCHANGED pendingRet
  /\ UNCHANGED << cancelVars, waitlist, currentIndex, hasError, curUrl,
                  cancelCaller, qVars >>

\* ----------------------------------------------------------------- finally
\* The last step function the URL run of instance i invoked was the final
\* step of an item and it returned: that item's pipeline ran to its end.
lastItemDone(i) ==
  /\ kind[i] = "url"
  /\ lastStart.idx >= 0 /\ lastStart.step = Len(allSteps) /\ settled
  /\ lastFailedIdx[i] # lastStart.idx

\* The finally block of both start methods: the lock is released and the
\* cancellation state is reset; the return value is delivered next.
Finally(i) ==
  /\ pc[i] = "finally"
  /\ releaseLock
  /\ resetCancellationState
  /\ pc' = [pc EXCEPT ![i] = "return"]
  /\ reqBefore' = reqInRun
  /\ reqBy' = {}
  /\ lastStart' = NoStep
  /\ settled' = TRUE
  /\ doneLeft' = IF waitlist = << >> THEN FALSE
                 ELSE doneLeft \/ lastItemDone(i)
  /\ UNCHANGED << waitlist, localVars, cancelCaller, observed, lastFailedIdx,
                  nStarted, missingField, qVars, listeners >>

\* The call returns pendingRet[i] to its caller; its locals are gone.  A
\* modal still in input mode can submit again; one that shows the progress
\* display has no submit button any more and is closed next.
Return(i) ==
  /\ pc[i] = "return"
  /\ pc' = [pc EXCEPT ![i] = IF InProgressMode(i) THEN "done" ELSE "idle"]
  /\ kind' = [kind EXCEPT ![i] = "none"]
  /\ currentIndex' = [currentIndex EXCEPT ![i] = 0]
  /\ hasError' = [hasError EXCEPT ![i] = FALSE]
  /\ stepIdx' = [stepIdx EXCEPT ![i] = 0]
  /\ curUrl' = [curUrl EXCEPT ![i] = ""]
  /\ noteData' = [noteData EXCEPT ![i] = NoData]
  /\ pendingRet' = [pendingRet EXCEPT ![i] = FALSE]
  /\ observed' = [observed EXCEPT ![i] = FALSE]
  /\ lastFailedIdx' = [lastFailedIdx EXCEPT ![i] = -1]
  /\ nStarted' = [nStarted EXCEPT ![i] = 0]
  /\ missingField' = [missingField EXCEPT ![i] = FALSE]
  /\ UNCHANGED << lockVars, cancelVars, waitlist, cancelCaller, reqBy,
                  reqBefore, stepHist, doneLeft, qVars, listeners >>

\* ------------------------------------------------------------ modal: close
\* The modal of a finished run is closed (onClose), and the next command
\* opens a new BookmarkModal with its own workflow in its place.  What the
\* discarded modal left subscribed is no longer tracked from then on.
ModalOnClose(i) ==
  /\ pc[i] = "done"
  /\ listeners' = onClose(listeners, i)
  /\ pc' = [pc EXCEPT ![i] = "closed"]
  /\ UNCHANGED << lockVars, cancelVars, waitlist, localVars, cancelCaller,
                  histVars, qVars >>

NewModal(i) ==
  /\ pc[i] = "closed"
  /\ listeners' = [listeners EXCEPT !["update"] = SelectSeq(@, LAMBDA l : l.owner # i)]
  /\ pc' = [pc EXCEPT ![i] = "idle"]
  /\ UNCHANGED << lockVars, cancelVars, waitlist, localVars, cancelCaller,
                  histVars, qVars >>

\* ------------------------------------------------------ requestCancellation
requestCancellation_guard_Always == TRUE

requestCancellation_guard == isWorkflowRunning /\ runningInstanceId # null

\* The modal of instance j calls this.workflow.requestCancellation() from
\* its cancel handler.
CallRequestCancellation(j) ==
  /\ Quiescent
  /\ cancelCaller' = j
  /\ UNCHANGED << lockVars, cancelVars, waitlist, pc, localVars, histVars,
                  qVars, listeners >>

\* The body of requestCancellation, running on instance cancelCaller: the
\* id recorded is the id of the running instance, whoever the caller is.
RequestCancellation ==
  /\ cancelCaller # null
  /\ IF requestCancellation_guard
       THEN /\ isCancellationRequested' = TRUE
            /\ cancellingInstanceId' = runningInstanceId
            /\ reqBy' = reqBy \cup {IF instanceId(cancelCaller) = runningInstanceId
                                      THEN "owner" ELSE "other"}
       ELSE UNCHANGED << cancelVars, reqBy >>
  /\ cancelCaller' = null
  /\ UNCHANGED << lockVars, waitlist, pc, localVars, reqBefore, observed,
                  lastFailedIdx, nStarted, stepHist, missingField, doneLeft, qVars,
                  listeners >>

Next ==
  \/ \E i \in Instances : \E lines \in LineSeqs : ModalStartWorkflow(i, lines)
  \/ \E i \in Instances : StartURLWorkflow(i)
  \/ \E i \in Instances : LoopHead(i)
  \/ \E i \in Instances : ExecuteStepEnter(i)
  \/ \E i \in Instances : StepFunctionReturns(i)
  \/ \E i \in Instances : StepFunctionThrows(i)
  \/ \E i \in Instances : \E doc \in YamlDocs : ParseGenerated(i, doc)
  \/ \E i \in Instances : \E doc \in YamlDocs : StartYAMLWorkflow(i, doc)
  \/ \E i \in Instances : Finally(i)
  \/ \E i \in Instances : Return(i)
  \/ \E i \in Instances : ModalOnClose(i)
  \/ \E i \in Instances : NewModal(i)
  \/ \E j \in Instances : CallRequestCancellation(j)
  \/ RequestCancellation

Spec == Init /\ [][Next]_vars

\* ---------------------------------------------------------- fair runs
\* JavaScript runs each handler and each continuation to completion, so a
\* synchronous segment that has begun is finished: weak fairness of the
\* steps that need no await (while one is enabled no other action is).
\* The awaited step function is assumed to settle; since other handlers
\* may run while it is pending, that is strong fairness of its
\* return-or-throw.  Only the holder of the lock can be in either.
RunStep ==
  \/ \E i \in Instances : StartURLWorkflow(i)
  \/ \E i \in Instances : LoopHead(i)
  \/ \E i \in Instances : ExecuteStepEnter(i)
  \/ \E i \in Instances : \E doc \in YamlDocs : ParseGenerated(i, doc)
  \/ \E i \in Instances : Finally(i)
  \/ \E i \in Instances : Return(i)
  \/ \E i \in Instances : ModalOnClose(i)
  \/ \E i \in Instances : NewModal(i)
  \/ RequestCancellation

StepSettles ==
  \E i \in Instances : StepFunctionReturns(i) \/ StepFunctionThrows(i)

Fairness == WF_vars(RunStep) /\ SF_vars(StepSettles)

FairSpec == Spec /\ Fairness

\* ------------------------------------------- WaitlistManager on its own
\* The queue's methods called directly, in any order, with the calls
\* logged: qBorn lists what was added since the last clear, nRemoved counts
\* the items handed out by remove(), qRet holds the last return value.
runVars == << lockVars, cancelVars, pc, localVars, cancelCaller, histVars >>

otherVars == << runVars, listeners >>

QAdd(url, type) ==
  /\ Len(qBorn) < MaxLog
  /\ waitlist' = add(waitlist, url, type)
  /\ qRet' = [op |-> "add", val |-> add_result(waitlist, url, type)]
  /\ qBorn' = Append(qBorn, << url, type >>)
  /\ UNCHANGED << nRemoved, otherVars >>

QRead(n) ==
  /\ qRet' = [op |-> "read", n |-> n, val |-> read(waitlist, n)]
  /\ UNCHANGED << waitlist, qBorn, nRemoved, otherVars >>

QRemove ==
  /\ waitlist' = remove(waitlist)
  /\ qRet' = [op |-> "remove", val |-> remove_result(waitlist),
              hadItem |-> Len(qBorn) > nRemoved,
              emitted |-> remove_emits(waitlist)]
  /\ nRemoved' = IF Len(qBorn) > nRemoved THEN nRemoved + 1 ELSE nRemoved
  /\ UNCHANGED << qBorn, otherVars >>

QClear ==
  /\ waitlist' = clear(waitlist)
  /\ qRet' = [op |-> "clear"]
  /\ qBorn' = << >>
  /\ nRemoved' = 0
  /\ UNCHANGED otherVars

QueueNext ==
  \/ \E url \in ValidURLs : \E type \in ProcessTypes : QAdd(url, type)
  \/ \E n \in 0..MaxLog : QRead(n)
  \/ QRemove
  \/ QClear

QueueSpec == Init /\ [][QueueNext]_vars

\* ------------------------------------------------- update() on its own
\* update called directly on queues built by add, with a step every item
\* has, a step only 'full' items have, and any index up to one past the
\* longest queue; qRet records the arguments and whether the call emitted
\* an 'update' event.  NonPending counts the statuses no longer pending.
UpdateSteps == {"get-web-content", "create-bookmark-note"}

UpdateIndexes == 0..MaxQueue

NonPending(wl) ==
  Cardinality({ks \in (1..Len(wl)) \X Range(allSteps) :
                 /\ ks[2] \in DOMAIN wl[ks[1]].status
                 /\ wl[ks[1]].status[ks[2]] # "pending"})

UAdd(url, type) ==
  /\ Len(waitlist) < MaxQueue
  /\ waitlist' = add(waitlist, url, type)
  /\ qRet' = [op |-> "add", val |-> add_result(waitlist, url, type)]
  /\ UNCHANGED << qBorn, nRemoved, otherVars >>

QUpdate(step, status, n) ==
  /\ NonPending(waitlist) < MaxMarks
  /\ waitlist' = update(waitlist, step, status, n)
  /\ qRet' = [op |-> "update", step |-> step, status |-> status, n |-> n,
              emitted |-> update_emits(waitlist, step, n)]
  /\ UNCHANGED << qBorn, nRemoved, otherVars >>

UpdateNext ==
  \/ \E type \in ProcessTypes : UAdd("https://a.example/", type)
  \/ \E step \in UpdateSteps : \E status \in stepStatus :
       \E n \in UpdateIndexes : QUpdate(step, status, n)

UpdateSpec == Init /\ [][UpdateNext]_vars

\* --------------------------------------------- the queue's event emitter
\* Direct subscribers and direct calls of the five methods.  Every method
\* writes the queue before it emits, so the write stays when a listener
\* throws; qRet records the event emitted ("none" when the method emits
\* nothing), the listeners called and whether the call threw.
Calls ==
  { [op |-> "add"], [op |-> "read"], [op |-> "remove"], [op |-> "clear"],
    [op |-> "update"] }

CallStep == "get-web-content"

call_queue(wl, m) ==
  CASE m.op = "add" -> add(wl, "https://a.example/", "full")
    [] m.op = "read" -> wl
    [] m.op = "remove" -> remove(wl)
    [] m.op = "clear" -> clear(wl)
    [] m.op = "update" -> update(wl, CallStep, "completed", 0)

call_event(wl, m) ==
  CASE m.op = "remove" -> IF remove_emits(wl) THEN "remove" ELSE "none"
    [] m.op = "update" -> IF update_emits(wl, CallStep, 0) THEN "update" ELSE "none"
    [] OTHER -> m.op

NumListeners == Len(listeners["add"]) + Len(listeners["read"]) + Len(listeners["remove"])
                  + Len(listeners["clear"]) + Len(listeners["update"])

LSubscribe(e, l) ==
  /\ NumListeners < MaxListeners
  /\ listeners' = subscribe(listeners, e, l)
  /\ UNCHANGED << waitlist, qVars, runVars >>

LUnsubscribe(e, l) ==
  /\ listeners' = unsubscribe(listeners, e, l)
  /\ UNCHANGED << waitlist, qVars, runVars >>

LCall(m) ==
  /\ m.op = "add" => Len(waitlist) < MaxQueue
  /\ waitlist' = call_queue(waitlist, m)
  /\ LET e == call_event(waitlist, m)
         r == IF e = "none" THEN emit(<< >>) ELSE emit(listeners[e])
     IN qRet' = [op |-> m.op, event |-> e, invoked |-> r.invoked, threw |-> r.threw]
  /\ UNCHANGED << qBorn, nRemoved, listeners, runVars >>

ListenerObjs == [owner : {Subscriber}, serial : 1..MaxListeners]

ListenerNext ==
  \/ \E e \in EventTypes : \E l \in ListenerObjs : LSubscribe(e, l)
  \/ \E e \in EventTypes : \E l \in ListenerObjs : LUnsubscribe(e, l)
  \/ \E m \in Calls : LCall(m)

ListenerSpec == Init /\ [][ListenerNext]_vars

\* ------------------------------------------------------------ FileManager
\* Strings are sequences of one-character strings.  A title is typed from
\* a letter, a dot, a character illegal in file names and a blank; the
\* bookmark folder of the settings is empty, a folder or a nested folder;
\* the clock is read as the decimal digits of Date.getTime().
TitleChars == {"a", ".", "/", " "}

RECURSIVE SeqsUpTo(_, _)
SeqsUpTo(S, n) ==
  IF n = 0 THEN {<< >>}
  ELSE LET shorter == SeqsUpTo(S, n - 1)
       IN shorter \cup {Append(t, c) : t \in shorter, c \in S}

Titles == SeqsUpTo(TitleChars, MaxTitleLen)

BookmarkFolders == { << >>, << "B" >>, << "B", "/", "c" >> }

ClockReadings ==
  { << "1", "7", "6", "2", "0", "2", "8", "0", "0", "0", "0", "0", "7" >>,
    << "1", "7", "6", "2", "0", "2", "8", "9", "4", "1", "3", "5", "0" >> }

\* s.replace(/[<>:"/\\|?*]/g, '_')
RECURSIVE replaceIllegal(_)
replaceIllegal(str) ==
  IF str = << >> THEN << >>
  ELSE << IF Head(str) = "/" THEN "_" ELSE Head(str) >> \o replaceIllegal(Tail(str))

\* s.replace(/\s+/g, ' ')
RECURSIVE collapseBlanks(_)
collapseBlanks(str) ==
  IF Len(str) < 2 THEN str
  ELSE IF str[1] = " " /\ str[2] = " " THEN collapseBlanks(Tail(str))
  ELSE << Head(str) >> \o collapseBlanks(Tail(str))

\* s.trim()
RECURSIVE trim(_)
trim(str) ==
  IF str = << >> THEN str
  ELSE IF Head(str) = " " THEN trim(Tail(str))
  ELSE IF str[Len(str)] = " " THEN trim(SubSeq(str, 1, Len(str) - 1))
  ELSE str

sanitizeFileName(fileName) == trim(collapseBlanks(replaceIllegal(fileName)))

\* s.split(sep): the pieces between the separators (always at least one).
RECURSIVE split(_, _)
split(str, sep) ==
  IF \A k \in 1..Len(str) : str[k] # sep THEN << str >>
  ELSE LET k == CHOOSE j \in 1..Len(str) :
                  str[j] = sep /\ \A h \in 1..(j - 1) : str[h] # sep
       IN << SubSeq(str, 1, k - 1) >> \o split(SubSeq(str, k + 1, Len(str)), sep)

\* parts.join(sep)
RECURSIVE join(_, _)
join(parts, sep) ==
  IF parts = << >> THEN << >>
  ELSE IF Len(parts) = 1 THEN parts[1]
  ELSE parts[1] \o << sep >> \o join(Tail(parts), sep)

\* now.getTime().toString().slice(-6)
timestamp(now) == SubSeq(now, Len(now) - 5, Len(now))

\* ensureFileCanBeCreated(filePath), given whether getAbstractFileByPath
\* finds a file and the clock reading.
ensureFileCanBeCreated_SamePath(filePath, exists, now) == filePath

ensureFileCanBeCreated(filePath, exists, now) ==
  IF ~exists THEN filePath
  ELSE LET pathParts == split(filePath, "/")
           fileName == pathParts[Len(pathParts)]
           folderPath == join(SubSeq(pathParts, 1, Len(pathParts) - 1), "/")
           nameParts == split(fileName, ".")
           hasExt == Len(nameParts) > 1
           extension == IF hasExt THEN nameParts[Len(nameParts)] ELSE << >>
           baseName == join(IF hasExt THEN SubSeq(nameParts, 1, Len(nameParts) - 1)
                                      ELSE nameParts, ".")
           newFileName == baseName \o << "_" >> \o timestamp(now) \o << "." >> \o extension
       IN IF folderPath # << >> THEN folderPath \o << "/" >> \o newFileName
                                ELSE newFileName

\* createNoteFile(title, content) up to the path handed to vault.create;
\* qRet records the path built from the title and the path chosen.
notePath(folder, title) ==
  folder \o << "/" >> \o sanitizeFileName(title) \o << ".", "m", "d" >>

CreateNoteFile(folder, title, exists, now) ==
  /\ qRet' = [op |-> "createNoteFile", path |-> notePath(folder, title),
              exists |-> exists,
              val |-> ensureFileCanBeCreated(notePath(folder, title), exists, now)]
  /\ UNCHANGED << waitlist, qBorn, nRemoved, otherVars >>

FileNext ==
  \E folder \in BookmarkFolders : \E title \in Titles : \E exists \in BOOLEAN :
    \E now \in ClockReadings : CreateNoteFile(folder, title, exists, now)

FileSpec == Init /\ [][FileNext]_vars

\* ======================================================================
\* Properties
\* ======================================================================

\* Instances whose run is between lock acquisition and lock release.
Active == {i \in Instances : pc[i] \in {"loop", "step", "action", "parse", "finally"}}

\* A run that acquired the lock has returned (its value is being delivered).
RunReturned(i) == pc[i] = "return" /\ kind[i] # "none"

\* A call that was turned away at the lock test is returning.
RejectedReturning(i) == pc[i] = "return" /\ kind[i] = "none"

\* The cancellation of instance i's run is pending (shouldCancel() would
\* answer true), stated on the static fields themselves.
OwnerCancelPending(i) ==
  isCancellationRequested /\ cancellingInstanceId = instanceId(i)

CancelFlagsReset == ~isCancellationRequested /\ cancellingInstanceId = null

\* C1: at most one run is between lock acquisition and release; while
\* isWorkflowRunning is true runningInstanceId is the id of the instance of
\* that run, and while it is false runningInstanceId is null.
C1_SingleFlight ==
  /\ Cardinality(Active) <= 1
  /\ isWorkflowRunning =>
       /\ runningInstanceId # null
       /\ Active = {i \in Instances : instanceId(i) = runningInstanceId}
  /\ ~isWorkflowRunning => (runningInstanceId = null /\ Active = {})

\* C1 witness: one run is suspended in a step while another instance is
\* about to call startURLWorkflow.
C1_Witness ==
  \E i, j \in Instances :
    i # j /\ pc[i] = "action" /\ pc[j] = "call" /\ isWorkflowRunning

\* Instance i takes the first step of a start call: startURLWorkflow is
\* called at "call"; an idle instance that leaves "idle" for anything but
\* "call" has been called with startYAMLWorkflow.
StartCalled(i) ==
  \/ pc[i] = "call" /\ pc'[i] # "call"              \* startURLWorkflow
  \/ pc[i] = "idle" /\ pc'[i] \notin {"idle", "call"} \* startYAMLWorkflow

\* C2: a start call made while the lock is held returns false without
\* entering any step and leaves the lock, the cancellation flags and the
\* whole queue (so every step status) as they were.
C2_RejectedStartChangesNothing ==
  [][\A i \in Instances :
       (isWorkflowRunning /\ StartCalled(i))
       => /\ UNCHANGED << lockVars, cancelVars, waitlist >>
          /\ pc'[i] = "return"
          /\ pendingRet'[i] = FALSE
          /\ kind'[i] = "none"]_vars

\* C2 witness: a rejected call is returning while the other run still
\* holds the lock in the middle of a step.
C2_Witness ==
  \E i, j \in Instances :
    i # j /\ RejectedReturning(i) /\ ~pendingRet[i] /\ pc[j] = "action"
          /\ runningInstanceId = instanceId(j)

\* C3: when a run that acquired the lock has returned, the lock is free,
\* runningInstanceId is null and both cancellation flags are reset.
C3_ReleasedAndResetOnReturn ==
  \A i \in Instances :
    RunReturned(i) =>
      /\ ~isWorkflowRunning
      /\ runningInstanceId = null
      /\ CancelFlagsReset

\* C3 witness: a URL run returns after one of its checkpoints threw the
\* cancellation.
C3_Witness ==
  \E i \in Instances : RunReturned(i) /\ kind[i] = "url" /\ observed[i]

\* C4 (as claimed): requestCancellation() called on an instance that is not
\* the owner of the running run changes no cancellation flag.
C4_ForeignRequestHasNoEffect ==
  [][( /\ cancelCaller # null
       /\ instanceId(cancelCaller) # runningInstanceId
       /\ cancelCaller' = null )
     => UNCHANGED cancelVars]_vars

\* C5: a pending cancellation was always requested during the run that
\* currently holds the lock: a request made while no run is active sets no
\* flag, and no run finds a request of an earlier run at its checkpoints.
C5_NoStaleCancellation ==
  /\ isCancellationRequested => (isWorkflowRunning /\ reqInRun)
  /\ cancellingInstanceId # null => (isWorkflowRunning /\ reqInRun)
  /\ \A i \in Instances : OwnerCancelPending(i) => (i \in Active /\ reqInRun)

\* C5 witness: a run stands at a checkpoint after a request took effect
\* during the previous run, and no cancellation is pending for it.
C5_Witness ==
  \E i \in Instances :
    pc[i] = "step" /\ reqBefore /\ ~reqInRun /\ ~OwnerCancelPending(i)

\* C6 (as claimed): an uncancelled URL run returns true exactly when no
\* item of the batch failed.
C6_TrueIffNoItemFailed ==
  \A i \in Instances :
    (pc[i] = "finally" /\ kind[i] = "url" /\ ~reqInRun)
      => (pendingRet[i] <=> lastFailedIdx[i] = -1)

\* The first step (get-web-content) of the current item has been started.
FirstStepStarted(i) ==
  pc[i] \in {"action", "parse"} \/ (pc[i] = "step" /\ stepIdx[i] > 1)

\* C7: in an uncancelled URL run a failed item never stops the batch: every
\* index the run has reached or passed, whatever failed before it, had the
\* action of its first step invoked, and the run never executes a step of
\* an item whose pipeline has failed.
C7_FailureDoesNotStopBatch ==
  \A i \in Instances :
    (kind[i] = "url" /\ ~reqInRun) =>
      /\ pc[i] \in {"step", "action", "parse"} => lastFailedIdx[i] < currentIndex[i]
      /\ FirstStepStarted(i) => nStarted[i] = currentIndex[i] + 1
      /\ (pc[i] \in {"loop", "finally"} \/ (pc[i] = "step" /\ stepIdx[i] = 1))
           => nStarted[i] = currentIndex[i]

\* C7 witness: the first step of a later item is running after the previous
\* item failed.
C7_Witness ==
  \E i \in Instances :
    /\ kind[i] = "url" /\ ~reqInRun /\ pc[i] = "action" /\ stepIdx[i] = 1
    /\ lastFailedIdx[i] = currentIndex[i] - 1 /\ currentIndex[i] >= 1

\* C8 (as claimed): a URL run in which the owner (and nobody else)
\* requested cancellation and a checkpoint observed it returns false and
\* leaves the queue non-empty.
C8_ObservedCancelAborts ==
  \A i \in Instances :
    (pc[i] = "finally" /\ kind[i] = "url" /\ observed[i] /\ reqBy = {"owner"})
      => (~pendingRet[i] /\ Len(waitlist) > 0)

\* C9: when the owner's cancellation is pending at the entry of
\* executeStep, the step function is not invoked and the queue (every step
\* status) is unchanged; the run goes on where the thrown
\* WorkflowCancellationError is handled.
C9_CheckpointThrowsWithoutStatusChange ==
  [][\A i \in Instances :
       (pc[i] = "step" /\ OwnerCancelPending(i) /\ pc'[i] # pc[i])
       => /\ waitlist' = waitlist
          /\ pc'[i] # "action"
          /\ pc'[i] = (IF kind[i] = "url" THEN "loop" ELSE "finally")
          /\ observed'[i]]_vars

\* C9 witness: executeStep threw the cancellation inside a URL pipeline
\* (the loop head is reached with the cancellation observed).
C9_Witness ==
  \E i \in Instances :
    pc[i] = "loop" /\ kind[i] = "url" /\ observed[i] /\ OwnerCancelPending(i)

\* Status of step s of the item a run is working on (the item at
\* currentIndex in a URL run, the head of the queue in a YAML run), "none"
\* when there is no such item or step.
CurrentStepStatus(wl, i, s) ==
  LET n == IF kind[i] = "url" THEN currentIndex[i] ELSE 0
  IN IF updateApplies(wl, s, n) THEN wl[n + 1].status[s] ELSE "none"

\* C10 (as claimed): with no cancellation pending executeStep sets the
\* status of its step to processing before the action runs, to completed
\* when the action returns and to failed when it throws.
C10_StatusFollowsAction ==
  [][\A i \in Instances :
       /\ (pc[i] = "step" /\ pc'[i] = "action")
            => CurrentStepStatus(waitlist', i, allSteps[stepIdx[i]]) = "processing"
       /\ (pc[i] = "action" /\ pc'[i] # "action")
            => CurrentStepStatus(waitlist', i, allSteps[stepIdx[i]])
                 \in {"completed", "failed"}]_vars

\* The status of one step changes in a legal way: pending -> processing,
\* or processing -> completed | failed.
LegalStatusChange(old, new) ==
  \/ old = "pending" /\ new = "processing"
  \/ old = "processing" /\ new \in {"completed", "failed"}

\* C11 (as claimed): while a run holds the lock, every change of a step
\* status of a queue item is pending -> processing or processing ->
\* completed | failed; a completed or failed step is never changed again.
C11_StatusTransitionsLegal ==
  [][\A n \in 1..Len(waitlist) :
       (isWorkflowRunning /\ n <= Len(waitlist')) =>
         \A s \in DOMAIN waitlist[n].status :
           waitlist'[n].status[s] # waitlist[n].status[s]
             => LegalStatusChange(waitlist[n].status[s], waitlist'[n].status[s])]_vars

\* Instance i invokes a step function in this step (executeStep passes its
\* checkpoint and awaits stepFunction()).
StepStarts(i) == pc[i] = "step" /\ pc'[i] = "action"

PipelineOrder ==
  << "get-web-content", "get-web-rating", "generate-bookmark-info",
     "download-web-screenshot", "create-bookmark-note" >>

C13_QueueEmptyAfterBatch ==
  \A i \in Instances :
    (RunReturned(i) /\ kind[i] = "url" /\ ~observed[i]) => Len(waitlist) = 0

\* C13 witness: a batch of two items, one of which failed, has returned.
C13_Witness ==
  \E i \in Instances :
    /\ RunReturned(i) /\ kind[i] = "url" /\ ~observed[i]
    /\ nStarted[i] = 2 /\ lastFailedIdx[i] = 0 /\ Len(waitlist) = 0

\* The pipeline of the item instance i is working on fails in this step
\* for a reason other than cancellation.
ItemFails(i) ==
  /\ kind[i] = "url"
  /\ lastFailedIdx'[i] # lastFailedIdx[i]
  /\ lastFailedIdx'[i] = currentIndex[i]

\* C14 (as claimed, for the item at the head of the queue): when the
\* pipeline of an item fails for a reason other than cancellation, at least
\* one step of that item has status failed once the failure is handled.
C14_FailureLeavesFailedStep ==
  [][\A i \in Instances :
       (ItemFails(i) /\ currentIndex[i] = 0) =>
         \E st \in Range(allSteps) :
           CurrentStepStatus(waitlist', i, st) = "failed"]_vars

\* Instance i is inside the step function of download-web-screenshot or
\* create-bookmark-note, the steps that request the screenshot and write
\* to the vault, working on the record noteData[i].
InNetworkOrFileStep(i) ==
  pc[i] = "action" /\ allSteps[stepIdx[i]] \in Range(steps_simple)

\* C15 (as claimed): the screenshot request and the file-system writes are
\* only executed for a record with non-empty title and url whose url is a
\* well-formed absolute URL, in both pipelines.
C15_OnlyWellFormedRecords ==
  \A i \in Instances :
    InNetworkOrFileStep(i) =>
      /\ noteData[i].title # ""
      /\ noteData[i].url # ""
      /\ IsValidURL(noteData[i].url)

\* Instance i holds (or has just released) the lock for a YAML run whose
\* document has no non-empty title or no non-empty url.
YamlRunMissingField(i) == kind[i] = "yaml" /\ missingField[i]

\* C16: a YAML run on a document without a non-empty title or url never
\* invokes a step function (no screenshot request, no file or folder
\* creation), changes nothing in the queue, returns false, and the lock is
\* free when it returns.
C16_MissingFieldRejected ==
  /\ [](\A i \in Instances :
          YamlRunMissingField(i) =>
            /\ pc[i] \in {"finally", "return"}
            /\ stepIdx[i] = 0
            /\ lastStart = NoStep
            /\ ~pendingRet[i]
            /\ pc[i] = "return" => (~isWorkflowRunning /\ runningInstanceId = null))
  /\ [][\A i \in Instances :
          (kind'[i] = "yaml" /\ missingField'[i]) => waitlist' = waitlist]_vars

\* C16 witness: such a run has returned while the queue holds an item.
C16_Witness ==
  \E i \in Instances :
    /\ YamlRunMissingField(i) /\ pc[i] = "return" /\ ~pendingRet[i]
    /\ ~isWorkflowRunning /\ Len(waitlist) > 0

\* C17: a YAML run only ever executes download-web-screenshot and then
\* create-bookmark-note, each at most once and in that order; it never
\* executes get-web-content, get-web-rating or generate-bookmark-info (the
\* content-extraction, relevance-search and text-generation calls), and a
\* run that returns true has executed both steps.
C17_YamlRunsTwoSteps ==
  /\ [](\A i \in Instances :
          kind[i] = "yaml" =>
            /\ pc[i] # "parse"
            /\ pc[i] \in {"step", "action"} =>
                 allSteps[stepIdx[i]] \in
                   {"download-web-screenshot", "create-bookmark-note"}
            /\ (pc[i] = "finally" /\ pendingRet[i]) =>
                 (settled /\ allSteps[lastStart.step] = "create-bookmark-note"))
  /\ [][\A i \in Instances :
          (kind[i] = "yaml" /\ StepStarts(i)) =>
            /\ settled
            /\ IF lastStart = NoStep
                 THEN allSteps[stepIdx[i]] = "download-web-screenshot"
                 ELSE /\ allSteps[lastStart.step] = "download-web-screenshot"
                      /\ allSteps[stepIdx[i]] = "create-bookmark-note"]_vars

\* C17 witness: a YAML run is about to return true after both steps.
C17_Witness ==
  \E i \in Instances :
    /\ kind[i] = "yaml" /\ pc[i] = "finally" /\ pendingRet[i]
    /\ lastStart.step = 5 /\ settled

\* The queue items a submission of lines is expected to append: one item
\* per line, in input order, every step of the full pipeline pending.
ItemsOf(lines) == [k \in 1..Len(lines) |-> NewItem(lines[k], "full")]

\* What every non-stuttering step of ModalStartWorkflow(i, lines)
\* satisfies whatever the lines are: i was idle and stays idle or gets to
\* the call of startURLWorkflow, no other instance moved, the lock, the
\* cancellation state and the pending cancel call are untouched, and the
\* queue or the position of i changed (the action leaves everything else
\* alone).
SubmitFrame(i) ==
  /\ pc[i] = "idle"
  /\ pc'[i] \in {"idle", "call"}
  /\ \A k \in Instances \ {i} : pc'[k] = pc[k]
  /\ UNCHANGED << lockVars, cancelVars, cancelCaller >>
  /\ waitlist' # waitlist \/ pc'[i] # pc[i]

\* C18: a URL submission with a line that is not a URL adds nothing to the
\* queue and starts no workflow; a submission whose lines are all URLs
\* appends one item per line in input order and then calls
\* startURLWorkflow.
C18_AllOrNothingSubmit ==
  [][\A i \in Instances :
       SubmitFrame(i) =>
         \A lines \in LineSeqs :
           ModalStartWorkflow(i, lines) =>
             IF \E k \in 1..Len(lines) : lines[k] \notin ValidURLs
               THEN /\ waitlist' = waitlist
                    /\ pc'[i] = "idle"
                    /\ UNCHANGED lockVars
               ELSE /\ waitlist' = waitlist \o ItemsOf(lines)
                    /\ pc'[i] = "call"]_vars

\* C18 witness: two different URLs were submitted to an empty
\* queue, and startURLWorkflow is about to be called.
C18_Witness ==
  \E i \in Instances :
    /\ pc[i] = "call"
    /\ waitlist = ItemsOf(<< "https://b.example/", "https://a.example/" >>)

\* C19 (as claimed): however the step function of get-web-rating settles,
\* failures of the relevance search included, the item does not fail and
\* the pipeline goes on to generate-bookmark-info.
C19_SearchFailureTolerated ==
  [][\A i \in Instances :
       ( /\ kind[i] = "url"
         /\ pc[i] = "action"
         /\ allSteps[stepIdx[i]] = "get-web-rating"
         /\ pc'[i] # "action" )
       => /\ pc'[i] = "step"
          /\ allSteps[stepIdx'[i]] = "generate-bookmark-info"
          /\ lastFailedIdx'[i] = lastFailedIdx[i]]_vars

\* The items that should be in the queue according to the call log: those
\* added since the last clear, oldest first, without the first nRemoved.
LiveItems ==
  [k \in 1..(Len(qBorn) - nRemoved) |->
     NewItem(qBorn[nRemoved + k][1], qBorn[nRemoved + k][2])]

\* C20: after any sequence of add, remove, clear and read calls the queue
\* holds exactly the added and not yet removed items in insertion order;
\* read(n) returned the n-th of them counted from the oldest (null beyond
\* the end) and changed nothing, remove() returned the oldest one and
\* deleted it (null on an empty queue), add returned the new length.
C20_QueueIsFifo ==
  /\ waitlist = LiveItems
  /\ qRet.op = "add" =>
       (qRet.val = Len(LiveItems) /\ waitlist[Len(waitlist)] =
          NewItem(qBorn[Len(qBorn)][1], qBorn[Len(qBorn)][2]))
  /\ qRet.op = "read" =>
       qRet.val = (IF qRet.n < Len(LiveItems) THEN LiveItems[qRet.n + 1]
                                              ELSE nullItem)
  /\ qRet.op = "remove" =>
       qRet.val = (IF qRet.hadItem
                     THEN NewItem(qBorn[nRemoved][1], qBorn[nRemoved][2])
                     ELSE nullItem)
  /\ qRet.op = "clear" => waitlist = << >>

\* C20 witness: after three adds and a remove, read(1) returned the item
\* added last, which differs from the one now at the head.
C20_Witness ==
  /\ Len(qBorn) = 3 /\ nRemoved = 1
  /\ qRet.op = "read" /\ qRet.n = 1
  /\ qRet.val = NewItem(qBorn[3][1], qBorn[3][2])
  /\ qRet.val # waitlist[1]

\* Status s of the k-th item is the one update(step, status, n) names.
IsTarget(wl, step, n, k, s) ==
  /\ n >= 0 /\ n < Len(wl) /\ step \in DOMAIN wl[n + 1].status
  /\ k = n + 1 /\ s = step

\* A direct update call has just returned.
UpdateReturns == qRet'.op = "update" /\ (qRet' # qRet \/ waitlist' # waitlist)

\* C21: update(step, status, n) changes only that step of item n: the
\* queue keeps its length, every item keeps its url and its set of steps,
\* every other status of every item keeps its value and the named status
\* becomes the given one; when n is out of range or the item has no such
\* step, the queue is unchanged and no update event is emitted.
C21_UpdateChangesOneStatus ==
  [][UpdateReturns =>
       /\ Len(waitlist') = Len(waitlist)
       /\ \A k \in 1..Len(waitlist) :
            /\ waitlist'[k].url = waitlist[k].url
            /\ DOMAIN waitlist'[k].status = DOMAIN waitlist[k].status
            /\ \A s \in DOMAIN waitlist[k].status :
                 waitlist'[k].status[s] =
                   (IF IsTarget(waitlist, qRet'.step, qRet'.n, k, s)
                      THEN qRet'.status ELSE waitlist[k].status[s])
       /\ qRet'.emitted =
            (\E k \in 1..Len(waitlist) : \E s \in DOMAIN waitlist[k].status :
               IsTarget(waitlist, qRet'.step, qRet'.n, k, s))
       /\ ~qRet'.emitted => waitlist' = waitlist]_vars

\* C21 witness: an update of the second item was applied and emitted while
\* another status of that item and a status of the first item were already
\* changed, and all three are as set.
C21_Witness ==
  /\ qRet.op = "update" /\ qRet.emitted /\ qRet.n = 1
  /\ Len(waitlist) = 2 /\ NonPending(waitlist) = 3
  /\ waitlist[2].status["create-bookmark-note"] = "failed"
  /\ waitlist[2].status["get-web-content"] = "completed"
  /\ waitlist[1].status["create-bookmark-note"] = "processing"

\* C22: read(n) with n beyond the end of the queue and remove() on an
\* empty queue return null and leave the queue as it was; remove() on an
\* empty queue emits no 'remove' event.
C22_NullOnMissingItem ==
  /\ (qRet.op = "read" /\ qRet.n >= Len(LiveItems)) =>
       (qRet.val = nullItem /\ waitlist = LiveItems)
  /\ (qRet.op = "remove" /\ ~qRet.hadItem) =>
       (qRet.val = nullItem /\ waitlist = << >> /\ ~qRet.emitted)

\* C22 witness: remove() was called on a queue emptied by earlier removes.
C22_Witness ==
  /\ qRet.op = "remove" /\ ~qRet.hadItem
  /\ Len(qBorn) = 2 /\ nRemoved = 2

\* A direct call of a queue method has just returned or thrown.
CallEnds == listeners' = listeners /\ (qRet' # qRet \/ waitlist' # waitlist)

\* The listeners of seq up to and including the first one that throws.
UpToFirstThrow(seq) ==
  IF \E k \in 1..Len(seq) : Throws(seq[k])
    THEN SubSeq(seq, 1, CHOOSE k \in 1..Len(seq) :
                          Throws(seq[k]) /\ \A j \in 1..(k - 1) : ~Throws(seq[j]))
    ELSE seq

\* C23: when add, read, remove, clear or update emits its event and a
\* subscribed listener throws, the call throws to its caller, the listeners
\* subscribed before the throwing one were called in subscription order and
\* the ones subscribed after it were not called; when none throws, all are
\* called and the call returns.
C23_ListenerErrorPropagates ==
  [][(CallEnds /\ qRet'.event # "none") =>
       /\ qRet'.event = qRet'.op
       /\ qRet'.threw = (\E k \in 1..Len(listeners[qRet'.event]) :
                           Throws(listeners[qRet'.event][k]))
       /\ qRet'.invoked = UpToFirstThrow(listeners[qRet'.event])]_vars

\* C23 witness: update emitted its event to a throwing listener followed
\* by a second listener, which was not called.
C23_Witness ==
  /\ qRet.op = "update" /\ qRet.event = "update" /\ qRet.threw
  /\ Len(listeners["update"]) = 2
  /\ qRet.invoked = << listeners["update"][1] >>

\* Position of the last occurrence of character c in str (0 when absent),
\* the folder part and the name part of a path, and the decimal digits.
LastIndexOf(str, c) ==
  IF \E k \in 1..Len(str) : str[k] = c
    THEN CHOOSE k \in 1..Len(str) :
           str[k] = c /\ \A j \in (k + 1)..Len(str) : str[j] # c
    ELSE 0

FolderOf(path) == SubSeq(path, 1, LastIndexOf(path, "/") - 1)

NameOf(path) == SubSeq(path, LastIndexOf(path, "/") + 1, Len(path))

Digits == {"0", "1", "2", "3", "4", "5", "6", "7", "8", "9"}

\* name is base, '_', six digits, '.', ext.
IsSuffixed(name, base, ext) ==
  /\ Len(name) = Len(base) + 8 + Len(ext)
  /\ SubSeq(name, 1, Len(base)) = base
  /\ name[Len(base) + 1] = "_"
  /\ \A k \in (Len(base) + 2)..(Len(base) + 7) : name[k] \in Digits
  /\ name[Len(base) + 8] = "."
  /\ SubSeq(name, Len(base) + 9, Len(name)) = ext

\* C24: for the path createNoteFile builds, ensureFileCanBeCreated
\* returns the path itself when no file exists there; otherwise it returns
\* a different path in the same folder whose name is the base name (the
\* name up to its last dot), '_', six digits, and the same extension.
C24_FreshPathKeepsFolderAndExtension ==
  qRet.op = "createNoteFile" =>
    IF ~qRet.exists THEN qRet.val = qRet.path
    ELSE LET name == NameOf(qRet.path)
             dot == LastIndexOf(name, ".")
         IN /\ qRet.val # qRet.path
            /\ FolderOf(qRet.val) = FolderOf(qRet.path)
            /\ dot > 0
            /\ IsSuffixed(NameOf(qRet.val), SubSeq(name, 1, dot - 1),
                          SubSeq(name, dot + 1, Len(name)))

\* C24 witness: a note titled "a.a" in a nested folder collided with an
\* existing file and got the suffix before its extension.
C24_Witness ==
  /\ qRet.op = "createNoteFile" /\ qRet.exists
  /\ qRet.path = << "B", "/", "c", "/", "a", ".", "a", ".", "m", "d" >>
  /\ qRet.val = << "B", "/", "c", "/", "a", ".", "a", "_", "9", "4", "1", "3",
                   "5", "0", ".", "m", "d" >>

\* C25: when every step function eventually returns or throws and the
\* queue holds finitely many items, every run that has acquired the lock
\* eventually releases it.
C25_LockEventuallyReleased == isWorkflowRunning ~> ~isWorkflowRunning

\* C25 witness: a URL run holds the lock with a full queue, is waiting for
\* the last step of its last item, and its cancellation has been requested.
C25_Witness ==
  \E i \in Instances :
    /\ isWorkflowRunning /\ runningInstanceId = instanceId(i)
    /\ kind[i] = "url" /\ pc[i] = "action" /\ stepIdx[i] = Len(allSteps)
    /\ Len(waitlist) = MaxQueue /\ currentIndex[i] = MaxQueue - 1
    /\ isCancellationRequested

\* C26 (as claimed): while a run executes a step, a status in the queue
\* changes only in the item the run is processing: for a URL run the item
\* at currentIndex, for a YAML run none of the queued URL items.
C26_UpdatesGoToCurrentItem ==
  [][(waitlist' # waitlist /\ Len(waitlist') = Len(waitlist)) =>
       \A i \in Instances :
         pc[i] \in {"step", "action"} =>
           \A n \in 1..Len(waitlist) :
             waitlist'[n] # waitlist[n] =>
               (kind[i] = "url" /\ n = currentIndex[i] + 1)]_vars

\* C27 (as claimed): while a run (of either kind) is under way, the queue
\* holds no item that an earlier run, which has released the lock, had
\* taken through its whole pipeline: such an item was removed before the
\* later run started.
C27_DoneItemsLeaveTheQueue ==
  \A i \in Instances :
    pc[i] \in {"loop", "step", "action", "parse"} => ~doneLeft

\* The presenter of instance i is handed the update event of the step the
\* run is executing: the update emits it and the modal has a listener.
Delivered(i) ==
  /\ update_emits(waitlist, allSteps[stepIdx[i]], executeStep_updateIndex(i))
  /\ listenersOf(listeners, i) # {}

\* C28 (as claimed): in a YAML run, when executeStep marks a step
\* processing (its action begins) and when it marks it completed or failed
\* (the action has settled), the modal of the run receives that update
\* event, whatever the queue holds.
C28_YamlRunShowsProgress ==
  [][\A i \in Instances :
       (/\ kind[i] = "yaml"
        /\ \/ pc[i] = "step" /\ pc'[i] = "action"
           \/ pc[i] = "action" /\ pc'[i] # "action")
       => Delivered(i)]_vars

\* C29 (as claimed): a modal has at most one 'update' listener subscribed
\* at any time, and none once its onClose has run.
C29_OneListenerPerModal ==
  \A i \in Instances :
    /\ Cardinality(listenersOf(listeners, i)) <= 1
    /\ pc[i] = "closed" => listenersOf(listeners, i) = {}

\* C30 (as claimed): a URL submission made while a run holds the lock
\* leaves the queue as it was.
C30_RejectedSubmitLeavesQueue ==
  [][\A i \in Instances :
       (isWorkflowRunning /\ pc[i] = "idle" /\ pc'[i] = "call")
         => waitlist' = waitlist]_vars

====
